---- MODULE Spec2Model ----
(***************************************************************************)
(* The macOS providers of qmk-hid-host: the Layout, Volume and Media       *)
(* polling loops, the bounded Output Channel they push frames to with      *)
(* try_send, and the broadcast Connection Lifecycle Signal that stops them.*)
(*                                                                         *)
(* Conventions of the model                                                *)
(*   Option<T>     None is <<>>, Some(x) is <<x>>.                         *)
(*   String        a sequence of tokens; the layout identifier prefix      *)
(*                 "com.apple.keylayout." is the one token KeyLayoutPrefix,*)
(*                 media texts are sequences of characters.                *)
(*   f32 volume    fixed point, in units of 1/VolScale.                    *)
(*   Vec<u8>       a sequence of integers in 0..255.                       *)
(***************************************************************************)
EXTENDS Integers, Sequences, FiniteSets, TLC

VARIABLES
    data_channel,     \* mpsc channel of frames (Vec<u8>), oldest first
    capacity,         \* the capacity the caller created data_channel with
    connected,        \* every value sent on the broadcast channel, oldest first
    notified,         \* history: the providers whose start() had been called
                      \* when disconnected (false) was broadcast
    l_pc,             \* Layout: position of the provider thread
    layouts,          \* Layout: the catalog given to LayoutProvider::new
    synced_layout,    \* Layout: the local synced_layout of start()
    l_is_connected,   \* Layout: the Arc<Mutex<bool>> is_connected
    l_receiver,       \* Layout: next index connected_receiver reads (0: none)
    lw_pc,            \* Layout: position of the watcher thread
    l_layout,         \* Layout: what get_keyboard_layout() returned last
    l_sent,           \* Layout: the frames the last poll handed to try_send
    l_emitted,        \* Layout, history: the code a frame was last handed over
                      \* for, until a poll resolves to another code
    v_pc,             \* Volume: position of start(), which runs the main loop
    synced_volume,    \* Volume: the local synced_volume of start()
    v_is_connected,   \* Volume: the Arc<Mutex<bool>> is_connected
    v_receiver,       \* Volume: next index connected_receiver reads (0: none)
    vw_pc,            \* Volume: position of the watcher thread
    v_volume,         \* Volume: what the last poll read (device, volume)
    v_prev,           \* Volume: what the poll before the last one read
    v_sent,           \* Volume: the frames the last poll handed to try_send
    v_prev_sent,      \* Volume: the frames the poll before it handed over
    m_pc,             \* Media: position of the provider thread
    USE_APPLE_SCRIPT, \* Media: the process-wide static AtomicBool
    last_artist,      \* Media: the local last_artist of the provider thread
    last_title,       \* Media: the local last_title of the provider thread
    m_receiver,       \* Media: next index connected_receiver reads (0: none)
    m_read,           \* Media: what the last poll obtained from its source
    m_before,         \* Media: (last_artist, last_title) when that poll began
    m_sent            \* Media: the frames the last poll handed to try_send

sharedVars == <<data_channel, capacity, connected, notified>>

layoutVars == <<l_pc, layouts, synced_layout, l_is_connected, l_receiver,
                lw_pc, l_layout, l_sent, l_emitted>>

volumeVars == <<v_pc, synced_volume, v_is_connected, v_receiver, vw_pc,
                v_volume, v_prev, v_sent, v_prev_sent>>

mediaVars == <<m_pc, USE_APPLE_SCRIPT, last_artist, last_title, m_receiver,
               m_read, m_before, m_sent>>

vars == <<sharedVars, layoutVars, volumeVars, mediaVars>>

(***************************************************************************)
(* Bounds of the model.                                                    *)
(***************************************************************************)
\* capacity of the Output Channel (mpsc::channel is created by the caller)
ChannelCapacity == 1
\* capacity of the Output Channel in the runs about the order of its frames
OrderChannelCapacity == 2
\* capacity of the broadcast channel (created by the caller)
BroadcastCapacity == 1
\* number of values the transport broadcasts in one run
MaxBroadcasts == 2

(***************************************************************************)
(* Options, bytes.                                                         *)
(***************************************************************************)
None == <<>>

Some(x) == <<x>>

\* `x as u8` for a non-negative integer x
AsU8(x) == x % 256

(***************************************************************************)
(* DataType as u8.  data_type.rs is not among the sources; the values are  *)
(* those the specification's examples give (Layout 0, Volume 2).           *)
(***************************************************************************)
DataTypeLayout == 0

DataTypeVolume == 2

DataTypeMediaArtist == 3

DataTypeMediaTitle == 4

(***************************************************************************)
(* The channels.                                                           *)
(***************************************************************************)
\* mpsc::Sender::try_send: Ok iff the channel has room
ChannelHasRoom == Len(data_channel) < capacity

\* a variant that puts the frame in front of the frames already queued
TrySendFront(frame) ==
    IF ChannelHasRoom THEN <<frame>> \o data_channel ELSE data_channel

\* the channel after try_send(frame)
TrySend(frame) ==
    IF ChannelHasRoom THEN Append(data_channel, frame) ELSE data_channel

\* what try_send(frame) is recorded as: the frame and whether it was accepted
Offer(frame) == [frame |-> frame, ok |-> ChannelHasRoom]

\* broadcast::Sender::subscribe: the receiver sees only later values
Subscribe == Len(connected) + 1

\* a variant that takes an empty or lagged subscription for disconnected
TryRecvOrFalse(r) ==
    IF r > Len(connected)
    THEN [value |-> FALSE, next |-> r]
    ELSE IF r + BroadcastCapacity <= Len(connected)
    THEN [value |-> FALSE, next |-> Len(connected) - BroadcastCapacity + 1]
    ELSE [value |-> connected[r], next |-> r + 1]

\* connected_receiver.try_recv().unwrap_or(true) for a receiver at index r:
\* Err(Empty) and Err(Lagged) both become true; a lagged receiver is moved
\* to the oldest value the channel still holds
TryRecv(r) ==
    IF r > Len(connected)
    THEN [value |-> TRUE, next |-> r]
    ELSE IF r + BroadcastCapacity <= Len(connected)
    THEN [value |-> TRUE, next |-> Len(connected) - BroadcastCapacity + 1]
    ELSE [value |-> connected[r], next |-> r + 1]

\* the providers whose start() has been called
Started ==
    {p \in {"layout"} : l_pc # "idle"} \cup {p \in {"volume"} : v_pc # "idle"}
    \cup {p \in {"media"} : m_pc # "idle"}

\* the transport reports connected (true) or disconnected (false)
Broadcast ==
    /\ Len(connected) < MaxBroadcasts
    /\ \E b \in BOOLEAN :
         /\ connected' = Append(connected, b)
         /\ notified' = IF b THEN notified ELSE notified \cup Started
    /\ UNCHANGED <<data_channel, capacity, layoutVars, volumeVars, mediaVars>>

\* the transport takes the oldest frame off the Output Channel
ChannelRecv ==
    /\ data_channel # <<>>
    /\ data_channel' = Tail(data_channel)
    /\ UNCHANGED <<capacity, connected, notified, layoutVars, volumeVars,
                   mediaVars>>

(***************************************************************************)
(* Layout provider.                                                        *)
(***************************************************************************)
KeyLayoutPrefix == "com.apple.keylayout."

\* create_layout_map
LayoutMapKeys == {<<"U.S.">>, <<"ABC">>, <<"Russian">>}

LayoutMap(name) ==
    IF name = <<"Russian">> THEN "ru" ELSE "en"

\* str::trim_start_matches(prefix): every leading repetition is removed
RECURSIVE TrimStartMatches(_)
TrimStartMatches(s) ==
    IF s # <<>> /\ Head(s) = KeyLayoutPrefix
    THEN TrimStartMatches(Tail(s))
    ELSE s

\* extract_layout_name
ExtractLayoutName(full_layout) ==
    IF full_layout # <<>> /\ Head(full_layout) = KeyLayoutPrefix
    THEN Some(TrimStartMatches(full_layout))
    ELSE None

\* a variant that resolves every name the map does not hold to "en"
GetKeyboardLayoutCodeOrEn(layout) ==
    LET extracted == ExtractLayoutName(layout) IN
    IF extracted # None
    THEN Some(IF extracted[1] = <<"Russian">> THEN "ru" ELSE "en")
    ELSE None

\* get_keyboard_layout_code
GetKeyboardLayoutCode(layout) ==
    LET extracted == ExtractLayoutName(layout) IN
    IF extracted # None
    THEN IF extracted[1] \in LayoutMapKeys
         THEN Some(LayoutMap(extracted[1]))
         ELSE None
    ELSE None

\* layouts.iter().position(|r| r == value): index from 0 of the first match
Position(list, value) ==
    LET matches == {i \in 1..Len(list) : list[i] = value} IN
    IF matches = {} THEN None
    ELSE Some((CHOOSE i \in matches : \A j \in matches : i <= j) - 1)

\* the frame send_data builds for a catalog position
LayoutFrame(index) == <<DataTypeLayout, AsU8(index)>>

\* send_data of the Layout provider: the frames it hands to try_send
LayoutSendData(value) ==
    LET index == Position(layouts, value) IN
    IF index # None THEN <<LayoutFrame(index[1])>> ELSE <<>>

\* a variant that never records the code
LayoutSyncedStale(layout_code) == synced_layout

\* a variant that records the code only when the frame was accepted
LayoutSyncedIfSent(layout_code) ==
    IF ChannelHasRoom THEN layout_code ELSE synced_layout

\* the synced_layout a poll leaves behind for a resolved code
LayoutSynced(layout_code) == layout_code

\* what the OS may report as the current input source
LayoutIdentifiers ==
    { <<KeyLayoutPrefix, "U.S.">>, <<KeyLayoutPrefix, "ABC">>,
      <<KeyLayoutPrefix, "Russian">>, <<KeyLayoutPrefix, "German">>,
      <<KeyLayoutPrefix, KeyLayoutPrefix, "Russian">>,
      <<"org.sil.ukelele.keylayout.", "Russian">>, <<KeyLayoutPrefix>> }

LayoutReads == {None} \cup {Some(id) : id \in LayoutIdentifiers}

\* catalogs a configuration may hold
LongCatalog == [i \in 1..257 |-> IF i = 257 THEN "en" ELSE "xx"]

Catalogs ==
    { <<"en", "ru">>, <<"ru", "en">>, <<"ru">>, <<"de", "en", "ru", "en">>,
      LongCatalog }

\* LayoutProvider::start up to the spawn of the provider thread
LayoutStart ==
    /\ l_pc = "idle"
    /\ l_pc' = "spawned"
    /\ synced_layout' = ""
    /\ l_is_connected' = TRUE
    /\ UNCHANGED <<sharedVars, layouts, l_receiver, lw_pc, l_layout, l_sent,
                   l_emitted>>
    /\ UNCHANGED <<volumeVars, mediaVars>>

\* the provider thread subscribes and spawns the watcher thread
LayoutSubscribe ==
    /\ l_pc = "spawned"
    /\ l_receiver' = Subscribe
    /\ lw_pc' = "recv"
    /\ l_pc' = "check"
    /\ UNCHANGED <<sharedVars, layouts, synced_layout, l_is_connected,
                   l_layout, l_sent, l_emitted>>
    /\ UNCHANGED <<volumeVars, mediaVars>>

\* a variant of the watcher that copies every value to the flag and goes on
LayoutWatcherFollows ==
    /\ lw_pc = "recv"
    /\ LET r == TryRecv(l_receiver) IN
       /\ l_receiver' = r.next
       /\ l_is_connected' = r.value
    /\ UNCHANGED <<sharedVars, l_pc, layouts, synced_layout, lw_pc, l_layout,
                   l_sent, l_emitted>>
    /\ UNCHANGED <<volumeVars, mediaVars>>

\* one iteration of the watcher thread's loop
LayoutWatcher ==
    /\ lw_pc = "recv"
    /\ LET r == TryRecv(l_receiver) IN
       /\ l_receiver' = r.next
       /\ IF ~r.value
          THEN l_is_connected' = FALSE /\ lw_pc' = "done"
          ELSE UNCHANGED <<l_is_connected, lw_pc>>
    /\ UNCHANGED <<sharedVars, l_pc, layouts, synced_layout, l_layout, l_sent,
                   l_emitted>>
    /\ UNCHANGED <<volumeVars, mediaVars>>

\* the check at the top of the main loop
LayoutCheck ==
    /\ l_pc = "check"
    /\ l_pc' = IF ~l_is_connected THEN "done" ELSE "poll"
    /\ UNCHANGED <<sharedVars, layouts, synced_layout, l_is_connected,
                   l_receiver, lw_pc, l_layout, l_sent, l_emitted>>
    /\ UNCHANGED <<volumeVars, mediaVars>>

\* the body of the main loop: read, resolve, compare, send, sleep
LayoutPollFrom(reads) ==
    /\ l_pc = "poll"
    /\ \E layout \in reads :
         LET layout_code ==
                 IF layout # None THEN GetKeyboardLayoutCode(layout[1]) ELSE None
             changed == layout_code # None /\ synced_layout # layout_code[1]
             frames == IF changed THEN LayoutSendData(layout_code[1]) ELSE <<>>
         IN
         /\ l_layout' = layout
         /\ synced_layout' =
                IF changed THEN LayoutSynced(layout_code[1]) ELSE synced_layout
         /\ l_sent' = [i \in 1..Len(frames) |-> Offer(frames[i])]
         /\ l_emitted' =
                IF frames # <<>> THEN layout_code
                ELSE IF layout_code \notin {None, l_emitted} THEN None
                ELSE l_emitted
         /\ data_channel' =
                IF frames # <<>> THEN TrySend(frames[1]) ELSE data_channel
    /\ l_pc' = "check"
    /\ UNCHANGED <<capacity, connected, notified, layouts, l_is_connected,
                   l_receiver, lw_pc>>
    /\ UNCHANGED <<volumeVars, mediaVars>>

(***************************************************************************)
(* Volume provider.  A volume is a whole number of 1/VolScale.             *)
(***************************************************************************)
VolScale == 1000

\* MIN_VOLUME_CHANGE = 0.05
MIN_VOLUME_CHANGE == 50

MIN_VOLUME_SEND_THRESHOLD == 1

\* f32::abs
Abs(x) == IF x < 0 THEN 0 - x ELSE x

\* (volume * 100.0).round() as u8: round half away from zero; the cast of a
\* float saturates
VolumePercentage(volume) ==
    LET rounded == (volume * 100 + VolScale \div 2) \div VolScale IN
    IF rounded > 255 THEN 255 ELSE rounded

\* a variant that compares with the reading of the poll before
VolumeChangedSincePoll(volume, synced) ==
    Abs(volume - (IF v_volume.volume # None THEN v_volume.volume[1] ELSE 0))
        > MIN_VOLUME_CHANGE

\* volume_change > MIN_VOLUME_CHANGE
VolumeChanged(volume, synced) == Abs(volume - synced) > MIN_VOLUME_CHANGE

\* a variant that lets the threshold itself through
AtOrAboveSendThreshold(volume_percentage) ==
    volume_percentage >= MIN_VOLUME_SEND_THRESHOLD

\* volume_percentage > MIN_VOLUME_SEND_THRESHOLD
AboveSendThreshold(volume_percentage) ==
    volume_percentage > MIN_VOLUME_SEND_THRESHOLD

\* send_data of the Volume provider: the frames it hands to try_send
VolumeSendData(volume) ==
    LET volume_percentage == VolumePercentage(volume) IN
    IF AboveSendThreshold(volume_percentage)
    THEN <<(<<DataTypeVolume, volume_percentage>>)>>
    ELSE <<>>

\* a variant that never records the reading
VolumeSyncedStale(volume) == synced_volume

\* the synced_volume a poll leaves behind for a reading past the threshold
VolumeSynced(volume) == volume

\* scalar volumes the audio subsystem may report
VolumeLevels == {14, 16, 200, 230, 270, 310}

\* what a poll may read: no default device, a device whose volume cannot be
\* read, or a device and its volume
VolumeReads ==
    {[device |-> FALSE, volume |-> None], [device |-> TRUE, volume |-> None]}
    \cup {[device |-> TRUE, volume |-> Some(v)] : v \in VolumeLevels}

\* a variant that starts from full volume
VolumeStartAtFull ==
    /\ v_pc = "idle"
    /\ v_pc' = "check"
    /\ vw_pc' = "spawned"
    /\ synced_volume' = VolScale
    /\ v_is_connected' = TRUE
    /\ UNCHANGED <<sharedVars, v_receiver, v_volume, v_prev, v_sent,
                   v_prev_sent>>
    /\ UNCHANGED <<layoutVars, mediaVars>>

\* VolumeProvider::start up to the main loop: start() spawns the watcher
\* thread and runs the main loop itself
VolumeStart ==
    /\ v_pc = "idle"
    /\ v_pc' = "check"
    /\ vw_pc' = "spawned"
    /\ synced_volume' = 0
    /\ v_is_connected' = TRUE
    /\ UNCHANGED <<sharedVars, v_receiver, v_volume, v_prev, v_sent,
                   v_prev_sent>>
    /\ UNCHANGED <<layoutVars, mediaVars>>

\* the watcher thread subscribes
VolumeSubscribe ==
    /\ vw_pc = "spawned"
    /\ v_receiver' = Subscribe
    /\ vw_pc' = "recv"
    /\ UNCHANGED <<sharedVars, v_pc, synced_volume, v_is_connected, v_volume,
                   v_prev, v_sent, v_prev_sent>>
    /\ UNCHANGED <<layoutVars, mediaVars>>

\* one iteration of the watcher thread's loop
VolumeWatcher ==
    /\ vw_pc = "recv"
    /\ LET r == TryRecv(v_receiver) IN
       /\ v_receiver' = r.next
       /\ IF ~r.value
          THEN v_is_connected' = FALSE /\ vw_pc' = "done"
          ELSE UNCHANGED <<v_is_connected, vw_pc>>
    /\ UNCHANGED <<sharedVars, v_pc, synced_volume, v_volume, v_prev, v_sent,
                   v_prev_sent>>
    /\ UNCHANGED <<layoutVars, mediaVars>>

\* the check at the top of the main loop
VolumeCheck ==
    /\ v_pc = "check"
    /\ v_pc' = IF ~v_is_connected THEN "done" ELSE "poll"
    /\ UNCHANGED <<sharedVars, synced_volume, v_is_connected, v_receiver,
                   vw_pc, v_volume, v_prev, v_sent, v_prev_sent>>
    /\ UNCHANGED <<layoutVars, mediaVars>>

\* the body of the main loop: read, compare, send, run the run loop for 1 s
VolumePollFrom(reads) ==
    /\ v_pc = "poll"
    /\ \E read \in reads :
         LET changed == read.volume # None
                          /\ VolumeChanged(read.volume[1], synced_volume)
             frames == IF changed THEN VolumeSendData(read.volume[1]) ELSE <<>>
         IN
         /\ v_volume' = read
         /\ v_prev' = v_volume
         /\ synced_volume' =
                IF changed THEN VolumeSynced(read.volume[1]) ELSE synced_volume
         /\ v_sent' = [i \in 1..Len(frames) |-> Offer(frames[i])]
         /\ v_prev_sent' = v_sent
         /\ data_channel' =
                IF frames # <<>> THEN TrySend(frames[1]) ELSE data_channel
    /\ v_pc' = "check"
    /\ UNCHANGED <<capacity, connected, notified, v_is_connected, v_receiver,
                   vw_pc>>
    /\ UNCHANGED <<layoutVars, mediaVars>>

(***************************************************************************)
(* Media provider.  A text is a sequence of characters; a character       *)
(* outside ASCII is written as its code point: U+0436 zhe, U+044F ya,      *)
(* U+044C soft sign, U+00E9 e acute.                                       *)
(***************************************************************************)
\* get_transliteration_table, for the characters the model uses
TransliterateChar(c) ==
    CASE c = "U+0436" -> <<"z", "h">>
      [] c = "U+044F" -> <<"y", "a">>
      [] c = "U+044C" -> <<>>
      [] OTHER -> <<c>>

\* transliterate_text: every character is replaced, in order (the text is
\* split in halves to keep the evaluation shallow)
RECURSIVE TransliterateText(_)
TransliterateText(text) ==
    IF text = <<>> THEN <<>>
    ELSE IF Len(text) = 1 THEN TransliterateChar(text[1])
    ELSE LET half == Len(text) \div 2 IN
         TransliterateText(SubSeq(text, 1, half))
            \o TransliterateText(SubSeq(text, half + 1, Len(text)))

\* the UTF-8 encoding of a character
Utf8(c) ==
    CASE c = "a" -> <<97>>
      [] c = "h" -> <<104>>
      [] c = "y" -> <<121>>
      [] c = "z" -> <<122>>
      [] c = "U+00E9" -> <<195, 169>>
      [] c = "U+0436" -> <<208, 182>>
      [] c = "U+044F" -> <<209, 143>>
      [] c = "U+044C" -> <<209, 140>>

\* str::as_bytes: the encodings of the characters, in order
RECURSIVE AsBytes(_)
AsBytes(text) ==
    IF text = <<>> THEN <<>>
    ELSE IF Len(text) = 1 THEN Utf8(text[1])
    ELSE LET half == Len(text) \div 2 IN
         AsBytes(SubSeq(text, 1, half))
            \o AsBytes(SubSeq(text, half + 1, Len(text)))

\* send_data of the Media provider: the frame it hands to try_send
MediaFrame(data_type, value) ==
    LET data == AsBytes(value) IN <<data_type, AsU8(Len(data))>> \o data

\* a variant that compares every text with last_artist
TextChangedFromArtist(transliterated, last) == transliterated # last_artist

\* artist_transliterated != *last_artist (and the same for the title)
TextChanged(transliterated, last) == transliterated # last

\* texts a player may report as artist or title
MediaTexts == {<<"U+0436">>, <<"z", "h">>, <<"U+00E9">>}

\* a value of the now-playing dictionary: absent, not an NSString, or text
DictValues ==
    {[class |-> "absent", str |-> <<>>], [class |-> "NSNumber", str |-> <<>>]}
    \cup {[class |-> "NSString", str |-> t] : t \in MediaTexts}

\* get_media_data, for one key: Some only for a value that is an NSString
GetMediaField(value) ==
    IF value.class = "NSString" THEN Some(value.str) ELSE None

\* what get_now_playing_info may return: nothing, or a dictionary
PrimaryReads ==
    {[strategy |-> "primary", info |-> FALSE, artist |-> None, title |-> None,
      parts |-> <<>>]}
    \cup {[strategy |-> "primary", info |-> TRUE,
           artist |-> GetMediaField(a), title |-> GetMediaField(t),
           parts |-> <<>>] : a \in DictValues, t \in DictValues}

\* what execute_applescript may return, split at '|': None for a failure or
\* an empty output
ScriptOutputs ==
    {None}
    \cup {Some(<<a, t>>) : a \in MediaTexts, t \in MediaTexts}
    \cup {Some(<<(<<"U+00E9">>)>>), Some(<<(<<"U+00E9">>), <<"U+00E9">>, <<"U+00E9">>>>)}

\* get_now_playing_via_applescript
FallbackReads ==
    {[strategy |-> "fallback", info |-> FALSE,
      artist |-> IF out # None /\ Len(out[1]) = 2 THEN Some(out[1][1]) ELSE None,
      title |-> IF out # None /\ Len(out[1]) = 2 THEN Some(out[1][2]) ELSE None,
      parts |-> out] : out \in ScriptOutputs}

\* a variant that switches only when there is no now-playing record
PrimaryLatchNoRecord(read) == ~read.info

\* USE_APPLE_SCRIPT after a poll of the primary strategy
PrimaryLatch(read) == ~read.info \/ read.artist = None \/ read.title = None

\* a variant that goes on when either field is there
MediaCompleteEither(read) == read.artist # None \/ read.title # None

\* whether the poll goes on to send_media_data
MediaComplete(read) == read.artist # None /\ read.title # None

\* MediaProvider::start up to the spawn of the provider thread
MediaStart ==
    /\ m_pc = "idle"
    /\ m_pc' = "spawned"
    /\ UNCHANGED <<sharedVars, USE_APPLE_SCRIPT, last_artist, last_title,
                   m_receiver, m_read, m_before, m_sent>>
    /\ UNCHANGED <<layoutVars, volumeVars>>

\* the provider thread subscribes and creates its state
MediaSubscribe ==
    /\ m_pc = "spawned"
    /\ m_receiver' = Subscribe
    /\ last_artist' = <<>>
    /\ last_title' = <<>>
    /\ m_pc' = "check"
    /\ UNCHANGED <<sharedVars, USE_APPLE_SCRIPT, m_read, m_before, m_sent>>
    /\ UNCHANGED <<layoutVars, volumeVars>>

\* the check at the top of the loop
MediaCheck ==
    /\ m_pc = "check"
    /\ LET r == TryRecv(m_receiver) IN
       /\ m_receiver' = r.next
       /\ m_pc' = IF ~r.value THEN "done" ELSE "query"
    /\ UNCHANGED <<sharedVars, USE_APPLE_SCRIPT, last_artist, last_title,
                   m_read, m_before, m_sent>>
    /\ UNCHANGED <<layoutVars, volumeVars>>

\* the query of the loop body, with the strategy USE_APPLE_SCRIPT selects;
\* a poll that does not reach send_media_data ends here, with its sleep
MediaQueryFrom(primary, fallback) ==
    /\ m_pc = "query"
    /\ \E read \in IF USE_APPLE_SCRIPT THEN fallback ELSE primary :
         /\ m_read' = read
         /\ USE_APPLE_SCRIPT' =
                IF USE_APPLE_SCRIPT THEN TRUE ELSE PrimaryLatch(read)
         /\ m_pc' = IF MediaComplete(read) THEN "artist" ELSE "check"
    /\ m_before' = <<last_artist, last_title>>
    /\ m_sent' = <<>>
    /\ UNCHANGED <<sharedVars, last_artist, last_title, m_receiver>>
    /\ UNCHANGED <<layoutVars, volumeVars>>

\* send_media_data, the artist
MediaSendArtist ==
    /\ m_pc = "artist"
    /\ LET artist_transliterated == TransliterateText(m_read.artist[1])
           frame == MediaFrame(DataTypeMediaArtist, artist_transliterated)
       IN
       IF m_read.artist # None
          /\ TextChanged(artist_transliterated, last_artist)
       THEN /\ data_channel' = TrySend(frame)
            /\ m_sent' = Append(m_sent, Offer(frame))
            /\ last_artist' = artist_transliterated
       ELSE UNCHANGED <<data_channel, m_sent, last_artist>>
    /\ m_pc' = "title"
    /\ UNCHANGED <<capacity, connected, notified, USE_APPLE_SCRIPT, last_title,
                   m_receiver, m_read, m_before>>
    /\ UNCHANGED <<layoutVars, volumeVars>>

\* send_media_data, the title, and the sleep that ends the poll
MediaSendTitle ==
    /\ m_pc = "title"
    /\ LET title_transliterated == TransliterateText(m_read.title[1])
           frame == MediaFrame(DataTypeMediaTitle, title_transliterated)
       IN
       IF m_read.title # None
          /\ TextChanged(title_transliterated, last_title)
       THEN /\ data_channel' = TrySend(frame)
            /\ m_sent' = Append(m_sent, Offer(frame))
            /\ last_title' = title_transliterated
       ELSE UNCHANGED <<data_channel, m_sent, last_title>>
    /\ m_pc' = "check"
    /\ UNCHANGED <<capacity, connected, notified, USE_APPLE_SCRIPT,
                   last_artist, m_receiver, m_read, m_before>>
    /\ UNCHANGED <<layoutVars, volumeVars>>

LayoutPoll == LayoutPollFrom(LayoutReads)

VolumePoll == VolumePollFrom(VolumeReads)

MediaQuery == MediaQueryFrom(PrimaryReads, FallbackReads)

Init ==
    /\ data_channel = <<>>
    /\ capacity \in {ChannelCapacity, OrderChannelCapacity}
    /\ connected = <<>>
    /\ notified = {}
    /\ l_pc = "idle"
    /\ layouts \in Catalogs
    /\ synced_layout = ""
    /\ l_is_connected = TRUE
    /\ l_receiver = 0
    /\ lw_pc = "none"
    /\ l_layout = None
    /\ l_sent = <<>>
    /\ l_emitted = None
    /\ v_pc = "idle"
    /\ synced_volume = 0
    /\ v_is_connected = TRUE
    /\ v_receiver = 0
    /\ vw_pc = "none"
    /\ v_volume = [device |-> FALSE, volume |-> None]
    /\ v_prev = [device |-> FALSE, volume |-> None]
    /\ v_sent = <<>>
    /\ v_prev_sent = <<>>
    /\ m_pc = "idle"
    /\ USE_APPLE_SCRIPT = FALSE
    /\ last_artist = <<>>
    /\ last_title = <<>>
    /\ m_receiver = 0
    /\ m_read = [strategy |-> "none", info |-> FALSE, artist |-> None,
                 title |-> None, parts |-> <<>>]
    /\ m_before = <<(<<>>), <<>>>>
    /\ m_sent = <<>>

NextLayout ==
    \/ Broadcast
    \/ ChannelRecv
    \/ LayoutStart
    \/ LayoutSubscribe
    \/ LayoutWatcher
    \/ LayoutCheck
    \/ LayoutPoll

InitLayout == Init /\ capacity = ChannelCapacity

SpecLayout == InitLayout /\ [][NextLayout]_vars

\* the catalog of the specification's example, for the runs of the other
\* providers
ExampleCatalog == <<"en", "ru">>

NextVolume ==
    \/ Broadcast
    \/ ChannelRecv
    \/ VolumeStart
    \/ VolumeSubscribe
    \/ VolumeWatcher
    \/ VolumeCheck
    \/ VolumePoll

InitVolume ==
    Init /\ layouts = ExampleCatalog /\ capacity = ChannelCapacity

SpecVolume == InitVolume /\ [][NextVolume]_vars

NextMedia ==
    \/ Broadcast
    \/ ChannelRecv
    \/ MediaStart
    \/ MediaSubscribe
    \/ MediaCheck
    \/ MediaQuery
    \/ MediaSendArtist
    \/ MediaSendTitle

InitMedia ==
    Init /\ layouts = ExampleCatalog /\ capacity = ChannelCapacity

SpecMedia == InitMedia /\ [][NextMedia]_vars

(***************************************************************************)
(* One provider at a time: the caller starts exactly one of the three.     *)
(***************************************************************************)
LayoutStartAlone == v_pc = "idle" /\ m_pc = "idle" /\ LayoutStart

VolumeStartAlone == l_pc = "idle" /\ m_pc = "idle" /\ VolumeStart

MediaStartAlone == l_pc = "idle" /\ v_pc = "idle" /\ MediaStart

NextAlone ==
    \/ Broadcast
    \/ ChannelRecv
    \/ LayoutStartAlone
    \/ LayoutSubscribe
    \/ LayoutWatcher
    \/ LayoutCheck
    \/ LayoutPoll
    \/ VolumeStartAlone
    \/ VolumeSubscribe
    \/ VolumeWatcher
    \/ VolumeCheck
    \/ VolumePoll
    \/ MediaStartAlone
    \/ MediaSubscribe
    \/ MediaCheck
    \/ MediaQuery
    \/ MediaSendArtist
    \/ MediaSendTitle

InitAlone ==
    Init /\ layouts = ExampleCatalog /\ capacity = ChannelCapacity

SpecAlone == InitAlone /\ [][NextAlone]_vars

\* every thread that can take a step eventually takes one
ThreadFairness ==
    /\ WF_vars(LayoutSubscribe) /\ WF_vars(LayoutWatcher)
    /\ WF_vars(LayoutCheck) /\ WF_vars(LayoutPoll)
    /\ WF_vars(VolumeSubscribe) /\ WF_vars(VolumeWatcher)
    /\ WF_vars(VolumeCheck) /\ WF_vars(VolumePoll)
    /\ WF_vars(MediaSubscribe) /\ WF_vars(MediaCheck)
    /\ WF_vars(MediaQuery) /\ WF_vars(MediaSendArtist)
    /\ WF_vars(MediaSendTitle)

FairSpecAlone == SpecAlone /\ ThreadFairness

(***************************************************************************)
(* The three providers side by side.  Each reads one input, so that the    *)
(* runs are about the interleaving of the threads; the inputs themselves   *)
(* are explored per provider above.                                        *)
(***************************************************************************)
FewLayoutReads ==
    {Some(<<KeyLayoutPrefix, "Russian">>)}

FewVolumeReads ==
    {[device |-> TRUE, volume |-> Some(v)] : v \in {310}}

FewPrimaryReads ==
    {r \in PrimaryReads :
        r.artist = Some(<<"U+0436">>) /\ r.title = Some(<<"U+00E9">>)}

FewFallbackReads ==
    {r \in FallbackReads :
        r.parts \in {None, Some(<<(<<"U+00E9">>), <<"U+0436">>>>)}}

Next ==
    \/ Broadcast
    \/ ChannelRecv
    \/ LayoutStart
    \/ LayoutSubscribe
    \/ LayoutWatcher
    \/ LayoutCheck
    \/ LayoutPollFrom(FewLayoutReads)
    \/ VolumeStart
    \/ VolumeSubscribe
    \/ VolumeWatcher
    \/ VolumeCheck
    \/ VolumePollFrom(FewVolumeReads)
    \/ MediaStart
    \/ MediaSubscribe
    \/ MediaCheck
    \/ MediaQueryFrom(FewPrimaryReads, FewFallbackReads)
    \/ MediaSendArtist
    \/ MediaSendTitle

InitAll ==
    Init /\ layouts = ExampleCatalog /\ capacity = ChannelCapacity

Spec == InitAll /\ [][Next]_vars

(***************************************************************************)
(* Steps of the providers, for the properties below.                       *)
(***************************************************************************)
LayoutPollStep == l_pc = "poll" /\ l_pc' # "poll"

VolumePollStep == v_pc = "poll" /\ v_pc' # "poll"

MediaArtistStep == m_pc = "artist" /\ m_pc' # "artist"

MediaTitleStep == m_pc = "title" /\ m_pc' # "title"

\* a frame was pushed to the Output Channel
Pushed == Len(data_channel') > Len(data_channel)

\* the resolved code of an Option<String> read of the layout
ResolvedCode(layout) ==
    IF layout # None THEN GetKeyboardLayoutCode(layout[1]) ELSE None

\* disconnected (false) was broadcast to a subscription whose next index is r
FalseSince(r) == r > 0 /\ \E i \in r..Len(connected) : ~connected[i]

LayoutDisconnectBroadcast == lw_pc = "done" \/ FalseSince(l_receiver)

VolumeDisconnectBroadcast == vw_pc = "done" \/ FalseSince(v_receiver)

MediaDisconnectBroadcast == m_pc = "done" \/ FalseSince(m_receiver)

(***************************************************************************)
(* C1.  After disconnected (false) has been broadcast to a provider's      *)
(* subscription, that provider pushes no further frame to the Output       *)
(* Channel.                                                                *)
(***************************************************************************)
C1_NoFrameAfterDisconnect ==
    [][ /\ LayoutDisconnectBroadcast => ~(LayoutPollStep /\ Pushed)
        /\ VolumeDisconnectBroadcast => ~(VolumePollStep /\ Pushed)
        /\ MediaDisconnectBroadcast =>
               ~((MediaArtistStep \/ MediaTitleStep) /\ Pushed) ]_vars

(***************************************************************************)
(* C2.  Under fair scheduling, a provider whose start() had been called    *)
(* when disconnected (false) was broadcast eventually exits its loop.      *)
(***************************************************************************)
C2_StartedProviderExits ==
    /\ ("layout" \in notified) ~> (l_pc = "done")
    /\ ("volume" \in notified) ~> (v_pc = "done")
    /\ ("media" \in notified) ~> (m_pc = "done")

(***************************************************************************)
(* C3.  A send to a full Output Channel leaves the channel as it was, the  *)
(* poll ends as any other poll (the loop goes on to its next check), the   *)
(* value is recorded as the provider's last value, and a poll that then    *)
(* observes the same value hands no frame over.                            *)
(***************************************************************************)
C3_FullChannelDropsFrame ==
    [][ /\ (LayoutPollStep /\ l_sent' # <<>> /\ ~l_sent'[1].ok) =>
              /\ data_channel' = data_channel
              /\ l_pc' = "check"
              /\ ResolvedCode(l_layout') = Some(synced_layout')
        /\ (LayoutPollStep /\ l_sent # <<>> /\ ~l_sent[1].ok
              /\ ResolvedCode(l_layout') = ResolvedCode(l_layout)) =>
              l_sent' = <<>>
        /\ (VolumePollStep /\ v_sent' # <<>> /\ ~v_sent'[1].ok) =>
              /\ data_channel' = data_channel
              /\ v_pc' = "check"
              /\ v_volume'.volume = Some(synced_volume')
        /\ (VolumePollStep /\ v_sent # <<>> /\ ~v_sent[1].ok
              /\ v_volume'.volume = v_volume.volume) =>
              v_sent' = <<>>
        /\ (MediaArtistStep /\ Len(m_sent') > Len(m_sent)
              /\ ~m_sent'[Len(m_sent')].ok) =>
              /\ data_channel' = data_channel
              /\ m_pc' = "title"
              /\ last_artist' = TransliterateText(m_read.artist[1])
        /\ (MediaTitleStep /\ Len(m_sent') > Len(m_sent)
              /\ ~m_sent'[Len(m_sent')].ok) =>
              /\ data_channel' = data_channel
              /\ m_pc' = "check"
              /\ last_title' = TransliterateText(m_read.title[1])
        /\ (MediaArtistStep
              /\ TransliterateText(m_read.artist[1]) = last_artist) =>
              m_sent' = m_sent
        /\ (MediaTitleStep
              /\ TransliterateText(m_read.title[1]) = last_title) =>
              m_sent' = m_sent ]_vars

\* a Layout frame was dropped at a full channel and its code recorded
C3_Witness ==
    /\ l_sent # <<>>
    /\ ~l_sent[1].ok
    /\ l_sent[1].frame = <<DataTypeLayout, 1>>
    /\ synced_layout = "ru"
    /\ Len(data_channel) = capacity
    /\ l_pc = "check"

(***************************************************************************)
(* C4.  Layout idempotence: once a Layout frame has been handed over for a *)
(* resolved code c, a poll that resolves to c hands over no frame, however *)
(* many failed or unrecognized reads came in between, until a poll         *)
(* resolves to another code.                                               *)
(***************************************************************************)
C4_LayoutIdempotence ==
    [][ (LayoutPollStep /\ l_emitted # None
           /\ ResolvedCode(l_layout') = l_emitted) =>
           (l_sent' = <<>> /\ data_channel' = data_channel) ]_vars

\* a poll resolved to the code of the last frame and handed nothing over
C4_Witness ==
    /\ l_emitted = Some("ru")
    /\ ResolvedCode(l_layout) = Some("ru")
    /\ l_sent = <<>>
    /\ l_pc = "check"

(***************************************************************************)
(* C5.  A poll that resolves a code which differs from synced_layout and   *)
(* is absent from the catalog hands over no frame and leaves synced_layout *)
(* unchanged.                                                              *)
(***************************************************************************)
C5_UnknownCodeLeavesState ==
    [][ (LayoutPollStep
           /\ ResolvedCode(l_layout') # None
           /\ ResolvedCode(l_layout')[1] # synced_layout
           /\ Position(layouts, ResolvedCode(l_layout')[1]) = None) =>
           (l_sent' = <<>> /\ synced_layout' = synced_layout) ]_vars

(***************************************************************************)
(* C6.  Layout catalog bound: a Layout frame is [Layout kind, p] where p   *)
(* is the position in the catalog of the resolved code, and a resolved     *)
(* code that is not in the catalog yields no frame; with the catalog       *)
(* ["en", "ru"] the identifier com.apple.keylayout.Russian yields index 1. *)
(***************************************************************************)
C6_LayoutCatalogBound ==
    LET code == ResolvedCode(l_layout) IN
    /\ l_sent # <<>> =>
          /\ code # None
          /\ Position(layouts, code[1]) # None
          /\ l_sent[1].frame =
                <<DataTypeLayout, Position(layouts, code[1])[1]>>
    /\ (code # None /\ Position(layouts, code[1]) = None) => l_sent = <<>>
    /\ (layouts = <<"en", "ru">> /\ l_sent # <<>>
          /\ l_layout = Some(<<KeyLayoutPrefix, "Russian">>)) =>
          l_sent[1].frame = <<0, 1>>

(***************************************************************************)
(* C7.  Volume threshold, suppression: of two consecutive polls that read  *)
(* volumes v1 then v2 with abs(v1 - v2) <= 0.05, at most one hands a       *)
(* Volume frame over, whatever synced_volume was before v1.                *)
(***************************************************************************)
C7_CloseReadingsEmitOnce ==
    (v_prev.volume # None /\ v_volume.volume # None
       /\ Abs(v_prev.volume[1] - v_volume.volume[1]) <= MIN_VOLUME_CHANGE) =>
       ~(v_prev_sent # <<>> /\ v_sent # <<>>)

\* 0.20 was handed over, and 0.23 right after it was not
C7_Witness ==
    /\ v_prev.volume = Some(200)
    /\ v_volume.volume = Some(230)
    /\ v_prev_sent # <<>>
    /\ v_sent = <<>>
    /\ synced_volume = 200

(***************************************************************************)
(* C8.  Volume threshold, emission: a poll that reads a volume v2 more     *)
(* than 0.05 away from synced_volume, with round(v2 * 100) > 1, hands the  *)
(* frame [Volume kind, round(v2 * 100)] to the Output Channel; with        *)
(* synced_volume 0.20, reading 0.23 hands nothing over and leaves 0.20,    *)
(* and reading 0.31 hands over the frame with percentage byte 31.          *)
(***************************************************************************)
C8_ChangeFromSyncedEmits ==
    [][ VolumePollStep =>
          /\ (v_volume'.volume # None
                /\ Abs(v_volume'.volume[1] - synced_volume) > MIN_VOLUME_CHANGE
                /\ VolumePercentage(v_volume'.volume[1]) > 1) =>
                /\ Len(v_sent') = 1
                /\ v_sent'[1].frame =
                      <<DataTypeVolume, VolumePercentage(v_volume'.volume[1])>>
          /\ (synced_volume = 200 /\ v_volume'.volume = Some(230)) =>
                (v_sent' = <<>> /\ synced_volume' = 200)
          /\ (synced_volume = 200 /\ v_volume'.volume = Some(310)) =>
                (Len(v_sent') = 1 /\ v_sent'[1].frame = <<DataTypeVolume, 31>>)
      ]_vars

\* 0.23 was read and not handed over, then 0.31 was read and handed over
C8_Witness ==
    /\ v_prev.volume = Some(230)
    /\ v_prev_sent = <<>>
    /\ v_volume.volume = Some(310)
    /\ Len(v_sent) = 1
    /\ v_sent[1].frame = <<DataTypeVolume, 31>>
    /\ synced_volume = 310

\* the statement about two consecutive readings: a reading v2 more than
\* 0.05 away from the reading v1 of the poll before, with
\* round(v2 * 100) > 1, is handed over
C8_ChangeFromPreviousEmits ==
    (v_prev.volume # None /\ v_volume.volume # None
       /\ Abs(v_prev.volume[1] - v_volume.volume[1]) > MIN_VOLUME_CHANGE
       /\ VolumePercentage(v_volume.volume[1]) > 1) =>
       /\ Len(v_sent) = 1
       /\ v_sent[1].frame =
             <<DataTypeVolume, VolumePercentage(v_volume.volume[1])>>

(***************************************************************************)
(* C9.  Volume floor: no Volume frame with percentage byte 0 or 1 is ever  *)
(* handed to or held by the Output Channel; every percentage byte is in    *)
(* 2..100.                                                                 *)
(***************************************************************************)
C9_VolumeFloor ==
    /\ \A i \in 1..Len(data_channel) :
          data_channel[i][1] = DataTypeVolume => data_channel[i][2] \in 2..100
    /\ \A i \in 1..Len(v_sent) : v_sent[i].frame[2] \in 2..100
    /\ (v_volume.volume # None
          /\ VolumePercentage(v_volume.volume[1]) \in {0, 1}) => v_sent = <<>>

\* a reading more than 0.05 below the last one handed over, with percentage
\* 1, was not handed over
C9_Witness ==
    /\ v_prev.volume = Some(200)
    /\ v_prev_sent # <<>>
    /\ v_volume.volume = Some(14)
    /\ v_sent = <<>>
    /\ synced_volume = 14

(***************************************************************************)
(* C10.  Media independence: a poll whose transliterated artist equals     *)
(* last_artist and whose transliterated title differs from last_title      *)
(* hands over exactly one frame, a MediaTitle; a poll in which both differ *)
(* hands over exactly two, the MediaArtist before the MediaTitle.          *)
(***************************************************************************)
C10_MediaIndependence ==
    (m_pc \notin {"artist", "title"} /\ MediaComplete(m_read)) =>
       LET artist == TransliterateText(m_read.artist[1])
           title == TransliterateText(m_read.title[1])
       IN
       /\ (artist = m_before[1] /\ title # m_before[2]) =>
             /\ Len(m_sent) = 1
             /\ m_sent[1].frame = MediaFrame(DataTypeMediaTitle, title)
       /\ (artist # m_before[1] /\ title # m_before[2]) =>
             /\ Len(m_sent) = 2
             /\ m_sent[1].frame = MediaFrame(DataTypeMediaArtist, artist)
             /\ m_sent[2].frame = MediaFrame(DataTypeMediaTitle, title)

\* the artist was reported in Cyrillic after it had been sent in its Latin
\* form, with a new title: one MediaTitle frame
C10_Witness ==
    /\ m_pc = "check"
    /\ MediaComplete(m_read)
    /\ m_before[1] = <<"z", "h">>
    /\ m_read.artist = Some(<<"U+0436">>)
    /\ TransliterateText(m_read.title[1]) # m_before[2]
    /\ Len(m_sent) = 1
    /\ m_sent[1].frame[1] = DataTypeMediaTitle

(***************************************************************************)
(* Steps of the Media provider's query.                                    *)
(***************************************************************************)
MediaQueryStep == m_pc = "query" /\ m_pc' # "query"

\* a read of the primary strategy that is not a complete pair: no record, or
\* an artist or a title that is absent or not text
IncompletePrimary(read) ==
    /\ read.strategy = "primary"
    /\ (~read.info \/ read.artist = None \/ read.title = None)

(***************************************************************************)
(* C11.  Media fallback latch: a poll of the primary strategy that yields  *)
(* no complete (artist, title) pair sets USE_APPLE_SCRIPT; once set it is  *)
(* never reset, and every later poll queries the fallback strategy, never  *)
(* the primary one.                                                        *)
(***************************************************************************)
C11_FallbackLatch ==
    [][ /\ USE_APPLE_SCRIPT => USE_APPLE_SCRIPT'
        /\ MediaQueryStep =>
              /\ IncompletePrimary(m_read') => USE_APPLE_SCRIPT'
              /\ USE_APPLE_SCRIPT => m_read'.strategy = "fallback"
              /\ ~USE_APPLE_SCRIPT => m_read'.strategy = "primary" ]_vars

\* the primary strategy returned a record without a text artist, and the
\* poll after it sent what the fallback strategy returned
C11_Witness ==
    /\ USE_APPLE_SCRIPT
    /\ m_read.strategy = "fallback"
    /\ MediaComplete(m_read)
    /\ Len(m_sent) = 2
    /\ m_before = <<(<<>>), <<>>>>
    /\ m_pc = "check"

(***************************************************************************)
(* The Media provider with a long text: 128 Cyrillic letters, each of      *)
(* which the transliteration turns into two Latin letters, 256 bytes.      *)
(***************************************************************************)
LongText == [i \in 1..128 |-> "U+0436"]

LongMediaTexts == {LongText, <<"U+00E9">>}

\* get_now_playing_info and get_media_data: nothing, or a record with a text
\* artist and a text title
LongPrimaryReads ==
    {[strategy |-> "primary", info |-> FALSE, artist |-> None, title |-> None,
      parts |-> <<>>]}
    \cup {[strategy |-> "primary", info |-> TRUE, artist |-> Some(a),
           title |-> Some(t), parts |-> <<>>] :
             a \in LongMediaTexts, t \in LongMediaTexts}

\* get_now_playing_via_applescript: a failure, or "artist|title"
LongFallbackReads ==
    {[strategy |-> "fallback", info |-> FALSE, artist |-> None, title |-> None,
      parts |-> None]}
    \cup {[strategy |-> "fallback", info |-> FALSE, artist |-> Some(a),
           title |-> Some(t), parts |-> Some(<<a, t>>)] :
             a \in LongMediaTexts, t \in LongMediaTexts}

MediaQueryLong == MediaQueryFrom(LongPrimaryReads, LongFallbackReads)

NextMediaLong ==
    \/ Broadcast
    \/ ChannelRecv
    \/ MediaStart
    \/ MediaSubscribe
    \/ MediaCheck
    \/ MediaQueryLong
    \/ MediaSendArtist
    \/ MediaSendTitle

SpecMediaLong == InitMedia /\ [][NextMediaLong]_vars

\* a MediaArtist or MediaTitle frame
IsTextFrame(frame) == frame[1] \in {DataTypeMediaArtist, DataTypeMediaTitle}

(***************************************************************************)
(* C12.  Every MediaArtist or MediaTitle frame handed to or held by the    *)
(* Output Channel is [kind, length, payload...] with 2 + length bytes in   *)
(* all: the length byte is the number of payload bytes, also for a text of *)
(* 256 bytes or more.                                                      *)
(***************************************************************************)
C12_TextFrameLength ==
    /\ \A i \in 1..Len(m_sent) :
          /\ IsTextFrame(m_sent[i].frame)
          /\ Len(m_sent[i].frame) = 2 + m_sent[i].frame[2]
    /\ \A i \in 1..Len(data_channel) :
          IsTextFrame(data_channel[i]) =>
             Len(data_channel[i]) = 2 + data_channel[i][2]

(***************************************************************************)
(* The three providers side by side on an Output Channel that holds more   *)
(* than one frame, while the transport stays connected: the Media provider *)
(* alternates between two artists, each poll of which may send an artist   *)
(* and a title.                                                            *)
(***************************************************************************)
OrderPrimaryReads ==
    {r \in PrimaryReads :
        /\ r.artist \in {Some(<<"U+0436">>), Some(<<"U+00E9">>)}
        /\ r.title = Some(<<"U+00E9">>)}

LayoutPollOrder == LayoutPollFrom(FewLayoutReads)

VolumePollOrder == VolumePollFrom(FewVolumeReads)

MediaQueryOrder == MediaQueryFrom(OrderPrimaryReads, FewFallbackReads)

NextOrder ==
    \/ ChannelRecv
    \/ LayoutStart
    \/ LayoutSubscribe
    \/ LayoutWatcher
    \/ LayoutCheck
    \/ LayoutPollOrder
    \/ VolumeStart
    \/ VolumeSubscribe
    \/ VolumeWatcher
    \/ VolumeCheck
    \/ VolumePollOrder
    \/ MediaStart
    \/ MediaSubscribe
    \/ MediaCheck
    \/ MediaQueryOrder
    \/ MediaSendArtist
    \/ MediaSendTitle

InitOrder ==
    Init /\ layouts = ExampleCatalog /\ capacity = OrderChannelCapacity

SpecOrder == InitOrder /\ [][NextOrder]_vars

\* the offer a step of the Media provider added to m_sent was accepted
MediaAccepted ==
    Len(m_sent') > Len(m_sent) /\ m_sent'[Len(m_sent')].ok

(***************************************************************************)
(* C13.  A frame the Output Channel accepts from a provider is queued      *)
(* behind every frame already in the channel, the provider's own earlier   *)
(* frames included, whatever the other providers sent in between; frames   *)
(* leave the channel only from its front; and within one poll the Media    *)
(* provider hands over the artist before the title.                        *)
(***************************************************************************)
C13_FramesKeepOrder ==
    [][ /\ (LayoutPollStep /\ l_sent' # <<>> /\ l_sent'[1].ok) =>
              data_channel' = Append(data_channel, l_sent'[1].frame)
        /\ (VolumePollStep /\ v_sent' # <<>> /\ v_sent'[1].ok) =>
              data_channel' = Append(data_channel, v_sent'[1].frame)
        /\ ((MediaArtistStep \/ MediaTitleStep) /\ MediaAccepted) =>
              data_channel' = Append(data_channel, m_sent'[Len(m_sent')].frame)
        /\ Pushed =>
              /\ Len(data_channel') = Len(data_channel) + 1
              /\ SubSeq(data_channel', 1, Len(data_channel)) = data_channel
        /\ (~Pushed /\ data_channel' # data_channel) =>
              data_channel' = Tail(data_channel)
        /\ Len(m_sent') = 2 =>
              /\ m_sent'[1].frame[1] = DataTypeMediaArtist
              /\ m_sent'[2].frame[1] = DataTypeMediaTitle ]_vars

\* the Layout provider's frame went into the channel between the artist and
\* the title of one poll of the Media provider, and the artist has left
C13_Witness ==
    /\ Len(m_sent) = 2
    /\ m_sent[1].ok
    /\ m_sent[2].ok
    /\ l_sent # <<>>
    /\ l_sent[1].ok
    /\ data_channel = <<l_sent[1].frame, m_sent[2].frame>>

(***************************************************************************)
(* C14.  Disconnection is terminal: a provider whose loop has exited stays *)
(* exited, polls no more and pushes no frame, whatever is broadcast        *)
(* afterwards; and the is_connected flags of Layout and Volume only change *)
(* from true to false.                                                     *)
(***************************************************************************)
C14_DisconnectionTerminal ==
    [][ /\ l_pc = "done" =>
              (l_pc' = "done" /\ UNCHANGED <<synced_layout, l_layout, l_sent>>)
        /\ v_pc = "done" =>
              (v_pc' = "done" /\ UNCHANGED <<synced_volume, v_volume, v_sent>>)
        /\ m_pc = "done" =>
              (m_pc' = "done"
                 /\ UNCHANGED <<last_artist, last_title, m_read, m_sent>>)
        /\ (l_pc = "done" \/ v_pc = "done" \/ m_pc = "done") => ~Pushed
        /\ ~l_is_connected => ~l_is_connected'
        /\ ~v_is_connected => ~v_is_connected' ]_vars

\* the Layout loop has exited, and connected was broadcast after the
\* disconnected that stopped it
C14_Witness ==
    /\ l_pc = "done"
    /\ lw_pc = "done"
    /\ ~l_is_connected
    /\ Len(connected) = 2
    /\ ~connected[1]
    /\ connected[2]

\* the value a subscription whose next index is r received last is an
\* explicit disconnected (false)
DeliveredFalse(r) == r > 1 /\ r - 1 <= Len(connected) /\ ~connected[r - 1]

(***************************************************************************)
(* C15.  A provider's loop exits only when its subscription has delivered  *)
(* an explicit disconnected (false): a poll always ends at the next check  *)
(* of the loop, whatever it read and whatever try_send returned, and an    *)
(* empty or lagged subscription never ends the loop.                       *)
(***************************************************************************)
C15_LoopExitsOnlyOnFalse ==
    [][ /\ (l_pc # "done" /\ l_pc' = "done") => DeliveredFalse(l_receiver')
        /\ (v_pc # "done" /\ v_pc' = "done") => DeliveredFalse(v_receiver')
        /\ (m_pc # "done" /\ m_pc' = "done") => DeliveredFalse(m_receiver')
        /\ LayoutPollStep => l_pc' = "check"
        /\ VolumePollStep => v_pc' = "check"
        /\ MediaQueryStep => m_pc' \in {"artist", "check"}
        /\ MediaArtistStep => m_pc' = "title"
        /\ MediaTitleStep => m_pc' = "check" ]_vars

\* two polls of the Volume provider in a row read nothing, its subscription
\* has lagged behind two broadcasts of connected, and the loop polls again
C15_Witness ==
    /\ v_pc = "poll"
    /\ vw_pc = "recv"
    /\ ~v_prev.device
    /\ v_volume.device
    /\ v_volume.volume = None
    /\ Len(connected) = 2
    /\ v_receiver = 3

(***************************************************************************)
(* A second run of the Media provider: start() is called again on the      *)
(* provider once its thread has exited.  The new thread subscribes and     *)
(* creates last_artist and last_title anew (MediaSubscribe); the static    *)
(* USE_APPLE_SCRIPT is left as the process has it.                         *)
(***************************************************************************)
NoMediaRead ==
    [strategy |-> "none", info |-> FALSE, artist |-> None, title |-> None,
     parts |-> <<>>]

MediaRestart ==
    /\ m_pc = "done"
    /\ m_pc' = "spawned"
    /\ m_read' = NoMediaRead
    /\ UNCHANGED <<sharedVars, USE_APPLE_SCRIPT, last_artist, last_title,
                   m_receiver, m_before, m_sent>>
    /\ UNCHANGED <<layoutVars, volumeVars>>

NextMediaRestart ==
    \/ Broadcast
    \/ ChannelRecv
    \/ MediaStart
    \/ MediaRestart
    \/ MediaSubscribe
    \/ MediaCheck
    \/ MediaQuery
    \/ MediaSendArtist
    \/ MediaSendTitle

SpecMediaRestart == InitMedia /\ [][NextMediaRestart]_vars

(***************************************************************************)
(* C16.  The state of the Media provider is fresh in every run: when the   *)
(* provider's thread is spawned USE_APPLE_SCRIPT is unset, and the first   *)
(* poll of the run queries the primary strategy and compares with empty    *)
(* last_artist and last_title, also in a run that follows one in which     *)
(* USE_APPLE_SCRIPT was set.                                               *)
(***************************************************************************)
C16_FreshMediaState ==
    [][ /\ (m_pc # "spawned" /\ m_pc' = "spawned") => ~USE_APPLE_SCRIPT'
        /\ (MediaQueryStep /\ m_read = NoMediaRead) =>
              /\ m_read'.strategy = "primary"
              /\ m_before' = <<(<<>>), <<>>>> ]_vars

(***************************************************************************)
(* A caller that starts the three providers one after another, Layout,     *)
(* then Volume, then Media: each call is made once the call before it has  *)
(* returned.  LayoutProvider::start and MediaProvider::start return once   *)
(* they have spawned the provider thread; VolumeProvider::start runs the   *)
(* main loop itself and returns when the loop has exited.                  *)
(***************************************************************************)
LayoutStartReturned == l_pc # "idle"

VolumeStartReturned == v_pc = "done"

MediaStartReturned == m_pc # "idle"

CallerStartsLayout == LayoutStart

CallerStartsVolume == LayoutStartReturned /\ VolumeStart

CallerStartsMedia == VolumeStartReturned /\ MediaStart

LayoutPollFew == LayoutPollFrom(FewLayoutReads)

VolumePollFew == VolumePollFrom(FewVolumeReads)

MediaQueryFew == MediaQueryFrom(FewPrimaryReads, FewFallbackReads)

NextCaller ==
    \/ Broadcast
    \/ ChannelRecv
    \/ CallerStartsLayout
    \/ LayoutSubscribe
    \/ LayoutWatcher
    \/ LayoutCheck
    \/ LayoutPollFew
    \/ CallerStartsVolume
    \/ VolumeSubscribe
    \/ VolumeWatcher
    \/ VolumeCheck
    \/ VolumePollFew
    \/ CallerStartsMedia
    \/ MediaSubscribe
    \/ MediaCheck
    \/ MediaQueryFew
    \/ MediaSendArtist
    \/ MediaSendTitle

SpecCaller == InitAll /\ [][NextCaller]_vars

\* the caller goes on whenever it can, and so does every thread
CallerFairness ==
    /\ WF_vars(CallerStartsLayout)
    /\ WF_vars(CallerStartsVolume)
    /\ WF_vars(CallerStartsMedia)
    /\ WF_vars(LayoutSubscribe) /\ WF_vars(LayoutWatcher)
    /\ WF_vars(LayoutCheck) /\ WF_vars(LayoutPollFew)
    /\ WF_vars(VolumeSubscribe) /\ WF_vars(VolumeWatcher)
    /\ WF_vars(VolumeCheck) /\ WF_vars(VolumePollFew)
    /\ WF_vars(MediaSubscribe) /\ WF_vars(MediaCheck)
    /\ WF_vars(MediaQueryFew) /\ WF_vars(MediaSendArtist)
    /\ WF_vars(MediaSendTitle)

FairSpecCaller == SpecCaller /\ CallerFairness

(***************************************************************************)
(* C17.  start() returns without waiting for disconnected: a caller that   *)
(* starts Layout, Volume and Media one after another eventually has all    *)
(* three started, whether or not disconnected is ever broadcast.           *)
(***************************************************************************)
C17_CallerStartsAllThree ==
    <>(l_pc # "idle" /\ v_pc # "idle" /\ m_pc # "idle")

LayoutCheckStep == l_pc = "check" /\ l_pc' # "check"

VolumeCheckStep == v_pc = "check" /\ v_pc' # "check"

MediaCheckStep == m_pc = "check" /\ m_pc' # "check"

(***************************************************************************)
(* C18.  Cancellation is checked at the top of every iteration: once       *)
(* is_connected is false the Layout and Volume main loops start no new     *)
(* poll and exit at their next check; the Media loop exits at the first    *)
(* check that follows the broadcast of disconnected to its subscription.   *)
(***************************************************************************)
C18_CancellationAtLoopTop ==
    [][ /\ (LayoutCheckStep /\ ~l_is_connected) => l_pc' = "done"
        /\ (~l_is_connected /\ l_pc # "poll") => l_pc' # "poll"
        /\ (VolumeCheckStep /\ ~v_is_connected) => v_pc' = "done"
        /\ (~v_is_connected /\ v_pc # "poll") => v_pc' # "poll"
        /\ (MediaCheckStep /\ FalseSince(m_receiver)) => m_pc' = "done" ]_vars

\* a read of the layout that yields no code: a failed read, an identifier
\* that does not start with the prefix, or a name the static map lacks
UnusableLayout(layout) ==
    \/ layout = None
    \/ layout[1] = <<>>
    \/ Head(layout[1]) # KeyLayoutPrefix
    \/ TrimStartMatches(layout[1]) \notin LayoutMapKeys

(***************************************************************************)
(* C19.  A poll that obtains no usable value hands over no frame, leaves   *)
(* the provider's last value as it was, and ends at the next check of the  *)
(* loop: a failed or unrecognized layout read leaves synced_layout, a      *)
(* failed device or volume read leaves synced_volume, a failed primary or  *)
(* fallback query leaves last_artist and last_title.                       *)
(***************************************************************************)
C19_FailedTickLeavesState ==
    [][ /\ (LayoutPollStep /\ UnusableLayout(l_layout')) =>
              /\ l_sent' = <<>>
              /\ UNCHANGED <<synced_layout, data_channel>>
              /\ l_pc' = "check"
        /\ (VolumePollStep /\ v_volume'.volume = None) =>
              /\ v_sent' = <<>>
              /\ UNCHANGED <<synced_volume, data_channel>>
              /\ v_pc' = "check"
        /\ (MediaQueryStep
              /\ (m_read'.artist = None \/ m_read'.title = None)) =>
              /\ m_sent' = <<>>
              /\ UNCHANGED <<last_artist, last_title, data_channel>>
              /\ m_pc' = "check" ]_vars

\* after "ru" was sent, a poll read an identifier whose name the map lacks:
\* nothing was handed over and synced_layout is still "ru"
C19_Witness ==
    /\ l_layout = Some(<<KeyLayoutPrefix, "German">>)
    /\ synced_layout = "ru"
    /\ l_emitted = Some("ru")
    /\ l_sent = <<>>
    /\ l_pc = "check"

(***************************************************************************)
(* C20.  synced_volume is the raw reading of the last poll that handed a   *)
(* Volume frame to the Output Channel, or 0.0 before any: a poll changes   *)
(* synced_volume exactly when it hands a frame over, and then to the       *)
(* reading; a reading that passes the 0.05 threshold and is held back by   *)
(* the percentage floor leaves it unchanged.                               *)
(***************************************************************************)
C20_SyncedIsLastPushed ==
    [][ VolumePollStep =>
          synced_volume' =
             IF v_sent' # <<>> THEN v_volume'.volume[1] ELSE synced_volume
      ]_vars

(***************************************************************************)
(* C21.  Under the primary strategy the Media provider sends only from a   *)
(* complete pair: a poll that gets no record, or a record in which the     *)
(* artist or the title is absent or not text, hands over no frame, not     *)
(* even for the field that is there, leaves last_artist and last_title as  *)
(* they were, and ends without a query of the fallback strategy, which the *)
(* next poll is the first to make.                                         *)
(***************************************************************************)
C21_PrimaryNeedsCompletePair ==
    [][ /\ (MediaQueryStep /\ IncompletePrimary(m_read')) =>
              /\ ~USE_APPLE_SCRIPT
              /\ m_sent' = <<>>
              /\ UNCHANGED <<last_artist, last_title, data_channel>>
              /\ m_pc' = "check"
        /\ (IncompletePrimary(m_read) /\ m_read' # m_read) =>
              (MediaQueryStep /\ m_read'.strategy = "fallback")
        /\ (IncompletePrimary(m_read) /\ m_pc # "done") =>
              /\ m_sent' = <<>>
              /\ UNCHANGED <<last_artist, last_title>> ]_vars

\* the record held a new artist and no title: nothing was handed over and
\* the loop is back at its check, with last_artist still empty
C21_Witness ==
    /\ m_read.strategy = "primary"
    /\ m_read.info
    /\ m_read.artist = Some(<<"U+0436">>)
    /\ m_read.title = None
    /\ last_artist = <<>>
    /\ m_sent = <<>>
    /\ USE_APPLE_SCRIPT
    /\ m_pc = "check"

VolumeStartStep == v_pc = "idle" /\ v_pc' # "idle"

(***************************************************************************)
(* C22.  The Volume provider starts from the baseline 0.0, not from its    *)
(* first reading: synced_volume is 0.0 when the loop starts, a reading v   *)
(* is handed over exactly when it is more than 0.05 away from              *)
(* synced_volume and round(v * 100) > 1, so the first reading exactly when *)
(* v > 0.05 and round(v * 100) > 1; and synced_volume becomes every        *)
(* reading that is more than 0.05 away from it and nothing else.           *)
(***************************************************************************)
C22_BaselineZero ==
    [][ /\ VolumeStartStep => synced_volume' = 0
        /\ (VolumePollStep /\ v_volume'.volume = None) =>
              synced_volume' = synced_volume
        /\ (VolumePollStep /\ v_volume'.volume # None) =>
              LET v == v_volume'.volume[1]
                  exceeds == Abs(v - synced_volume) > MIN_VOLUME_CHANGE
              IN
              /\ (v_sent' # <<>>) <=> (exceeds /\ VolumePercentage(v) > 1)
              /\ synced_volume' = IF exceeds THEN v ELSE synced_volume
              /\ synced_volume = 0 =>
                    ((v_sent' # <<>>) <=>
                        (v > MIN_VOLUME_CHANGE /\ VolumePercentage(v) > 1))
      ]_vars

\* the first poll after start read 0.20 and handed [Volume, 20] over
C22_Witness ==
    /\ v_prev = [device |-> FALSE, volume |-> None]
    /\ v_prev_sent = <<>>
    /\ v_volume.volume = Some(200)
    /\ Len(v_sent) = 1
    /\ v_sent[1].frame = <<DataTypeVolume, 20>>
    /\ synced_volume = 200

====
